---- MODULE Spec2Model ----
(***************************************************************************)
(* Model of the tactical map of src/map/map.py (class TileMap): the grid   *)
(* of terrains with their occupants, the units' coordinates, the selection *)
(* state (prev_sel, curr_sel, move_area, attack_area, return_path) and the *)
(* operations select, move, move_undo, kill_unit, prepare_attack and       *)
(* reset_selection.  The blocking animation sub-loop of move_animation is  *)
(* modelled by the control state pc = "anim".                              *)
(***************************************************************************)
EXTENDS Integers, Sequences, FiniteSets, TLC

VARIABLES
    terrains,     \* self.terrains: the occupant (Terrain.unit) of every cell
    allowed,      \* the traversal tags (Terrain.allowed) of every cell
    coord,        \* unit.coord
    sprites,      \* the units that have a sprite: those still in play
    team,         \* the team of every unit
    played,       \* unit.played
    active_team,  \* units_manager.active_team
    weapon_range, \* unit.get_weapon_range(): (min_range, max_range)
    prev_sel, curr_sel, move_area, attack_area, return_path,
    pc,           \* "idle", or "anim" inside the sub-loop of move_animation
    anim,         \* the locals of the running move_animation and its caller
    last,         \* the operation that returned last, and how
    pre,          \* the grid as it was before the move of the select that returned
                  \* last, kept while a move_undo that follows it runs
    calls,        \* the number of operations called so far
    moves,        \* the number of calls of move from outside the map so far
    ret,          \* the value the last query returned, or the error it raised
    rooms,        \* room.rooms: the queue of the rooms to run
    quit,         \* room.quit
    stack,        \* the calls of run_room in progress, the innermost last
    run_pc,       \* where run() is: "idle", "while", "room" or "done"
    done,         \* room.done, of every room
    started,      \* the rooms run_room was called for
    ended,        \* the rooms whose end() was called
    halted,       \* the rooms that were running when stop() was called
    resumed,      \* the rooms of halted whose loop went into one more iteration
    children,     \* room.children, of every room
    parent,       \* room.parent, of every room
    made          \* the rooms constructed so far

vars == <<terrains, allowed, coord, sprites, team, played, active_team, weapon_range,
          prev_sel, curr_sel, move_area, attack_area, return_path,
          pc, anim, last, pre, calls, moves, ret,
          rooms, quit, stack, run_pc, done, started, ended, halted, resumed,
          children, parent, made>>

(* ------------------------------ bounds -------------------------------- *)
\* width of the grid (self.w)
W == 3
\* height of the grid (self.h)
H == 3
\* number of calls of the operations of the map that a run makes
MaxCalls == 4
\* number of calls of move that a run makes from outside the map (by the AI)
MaxMoves == 1

(* ------------------------------ data ---------------------------------- *)
Units == {"u1", "u2"}
\* Python's None, for a unit reference
NoUnit == "None"
\* Python's None, for a coordinate (a selection that is not set)
NoCoord == <<>>
\* Python's None for return_path; the code never stores an empty list there
NoPath == <<>>

Coords == {<<x, y>> : x \in 0 .. (W - 1), y \in 0 .. (H - 1)}

\* the units' attributes, as loaded from the map and the yaml files
Movement == [u1 |-> 1, u2 |-> 2]
WeaponRange == [u1 |-> <<1, 1>>, u2 |-> <<0, 1>>]
AllowedTerrains == [u1 |-> {"walk"}, u2 |-> {"walk", "fly"}]
Teams == {"blue", "red"}

\* where the map file puts the units: in two opposite corners
StartCoord == [u1 |-> <<0, 0>>, u2 |-> <<W - 1, H - 1>>]

\* the terrain of the map: every cell can be crossed
OpenTerrain == [c \in Coords |-> <<"any">>]

(* ----------------------------- helpers -------------------------------- *)
Abs(n) == IF n < 0 THEN 0 - n ELSE n

\* utils.distance: Manhattan distance
distance(a, b) == Abs(a[1] - b[1]) + Abs(a[2] - b[2])

InSeq(e, s) == \E i \in 1 .. Len(s) : s[i] = e

RECURSIVE Reverse(_)
Reverse(s) == IF s = <<>> THEN <<>> ELSE Reverse(Tail(s)) \o <<Head(s)>>

\* list.pop(): the list without its last element
Front(s) == SubSeq(s, 1, Len(s) - 1)

check_coord(c) == 0 <= c[1] /\ c[1] < W /\ 0 <= c[2] /\ c[2] < H

\* TileMap.neighbors, in the order of the code
neighbors(c) ==
    LET n == << <<c[1] + 1, c[2]>>, <<c[1] - 1, c[2]>>,
                <<c[1], c[2] + 1>>, <<c[1], c[2] - 1>> >>
    IN SelectSeq(n, check_coord)

get_unit(c) == terrains[c]

\* the curr_unit / prev_unit properties: None on a KeyError
UnitAt(sel) == IF sel \in Coords THEN terrains[sel] ELSE NoUnit
curr_unit == UnitAt(curr_sel)
prev_unit == UnitAt(prev_sel)

are_enemies(a, b) == team[a] # team[b]
is_mine(u) == team[u] = active_team

\* a test of the first tag of the cell alone
TagsBlockFirst(tags, unit_allowed) ==
    IF tags = <<>> THEN TRUE
    ELSE IF Head(tags) = "any" THEN FALSE
    ELSE IF Head(tags) = "none" THEN TRUE
    ELSE Head(tags) \notin unit_allowed

\* TileMap.is_obstacle: the first tag of the cell that decides
RECURSIVE TagsBlock(_, _)
TagsBlock(tags, unit_allowed) ==
    IF tags = <<>> THEN TRUE
    ELSE IF Head(tags) = "any" THEN FALSE
    ELSE IF Head(tags) = "none" THEN TRUE
    ELSE IF Head(tags) \in unit_allowed THEN FALSE
    ELSE TagsBlock(Tail(tags), unit_allowed)

is_obstacle(c, unit) ==
    IF unit # NoUnit /\ terrains[c] # NoUnit
    THEN are_enemies(unit, terrains[c])
    ELSE IF unit = NoUnit THEN FALSE
    ELSE TagsBlock(allowed[c], AllowedTerrains[unit])

(* ------------- Pathfinder (map/pathfinder.py, not in src) ------------- *)
\* a cell blocks the mover; the occupant of the goal cell is ignored
Blocked(c, mover, goal) ==
    IF c = goal
    THEN mover # NoUnit /\ TagsBlock(allowed[c], AllowedTerrains[mover])
    ELSE is_obstacle(c, mover)

\* the cells first reached after one more step from the frontier
Expand(frontier, visited, mover, goal) ==
    {n \in Coords : /\ n \notin visited
                    /\ \E c \in frontier : distance(n, c) = 1
                    /\ ~Blocked(n, mover, goal)}

\* Layers(...)[k + 1] is the set of cells at cost k from the start
RECURSIVE Layers(_, _, _, _, _)
Layers(ls, visited, mover, goal, budget) ==
    IF budget = 0 \/ ls[Len(ls)] = {} THEN ls
    ELSE LET nxt == Expand(ls[Len(ls)], visited, mover, goal)
         IN Layers(Append(ls, nxt), visited \cup nxt, mover, goal, budget - 1)

Lex(a, b) == a[1] < b[1] \/ (a[1] = b[1] /\ a[2] <= b[2])

RECURSIVE SortedSeq(_)
SortedSeq(S) ==
    IF S = {} THEN <<>>
    ELSE LET m == CHOOSE a \in S : \A b \in S : Lex(a, b)
         IN <<m>> \o SortedSeq(S \ {m})

\* Pathfinder.area: the cells reachable from origin within budget, origin included
PathArea(origin, budget) ==
    LET ls == Layers(<<{origin}>>, {origin}, get_unit(origin), NoCoord, budget)
    IN SortedSeq(UNION {ls[i] : i \in 1 .. Len(ls)})

\* the path back from cur, at cost k, to the start
RECURSIVE PathBack(_, _, _)
PathBack(ls, cur, k) ==
    IF k = 0 THEN <<cur>>
    ELSE LET ns == SelectSeq(neighbors(cur), LAMBDA n : n \in ls[k])
         IN PathBack(ls, Head(ns), k - 1) \o <<cur>>

\* Pathfinder.shortest_path: [start, ..., goal], or the empty list when the
\* goal is not reachable within the budget
shortest_path(start, goal, budget) ==
    LET ls == Layers(<<{start}>>, {start}, get_unit(start), goal, budget)
        at == {k \in 1 .. Len(ls) : goal \in ls[k]}
    IN IF at = {} THEN <<>>
       ELSE PathBack(ls, goal, (CHOOSE k \in at : TRUE) - 1)

(* --------------------------- attack areas ------------------------------ *)
\* the coordinates (i, j) the two nested loops over
\* range(x - r, x + r + 1) and range(y - r, y + r + 1) visit, in their order
Square(x, y, r) ==
    [k \in 1 .. (2 * r + 1) * (2 * r + 1) |->
        <<x - r + ((k - 1) \div (2 * r + 1)), y - r + ((k - 1) % (2 * r + 1))>>]

\* an attack area that also takes the cells of the move area
set_attack_area_over_move_area(center, min_range, max_range, ma, aa) ==
    aa \o SelectSeq(Square(center[1], center[2], max_range),
                    LAMBDA c : /\ ~InSeq(c, aa)
                               /\ min_range <= distance(center, c)
                               /\ distance(center, c) <= max_range)

\* TileMap.__set_attack_area: the attack area aa after the visit of the square
\* around center; the cells of one square are distinct, so the test against
\* attack_area is a test against aa
set_attack_area(center, min_range, max_range, ma, aa) ==
    aa \o SelectSeq(Square(center[1], center[2], max_range),
                    LAMBDA c : /\ ~InSeq(c, ma) /\ ~InSeq(c, aa)
                               /\ min_range <= distance(center, c)
                               /\ distance(center, c) <= max_range)

\* TileMap.move_attack_area: the attack area of the unit, for the move area ma
RECURSIVE MoveAttackFrom(_, _, _, _)
MoveAttackFrom(rest, ma, rng, aa) ==
    IF rest = <<>> THEN aa
    ELSE MoveAttackFrom(Tail(rest), ma, rng,
                        set_attack_area(Head(rest), rng[1], rng[2], ma, aa))

move_attack_area(unit, ma) == MoveAttackFrom(ma, ma, weapon_range[unit], <<>>)

\* TileMap.still_attack_area: the attack area without moving
still_attack_area(unit, center) ==
    set_attack_area(center, weapon_range[unit][1], weapon_range[unit][2], <<>>, <<>>)

\* a ring that is not cut at the border of the grid
area_unchecked(center, radius, hole) ==
    SelectSeq(Square(center[1], center[2], radius),
              LAMBDA c : /\ hole <= distance(center, c)
                         /\ distance(center, c) <= radius)

\* TileMap.area: the in-bounds ring around center
area(center, radius, hole) ==
    SelectSeq(Square(center[1], center[2], radius),
              LAMBDA c : /\ check_coord(c)
                         /\ hole <= distance(center, c)
                         /\ distance(center, c) <= radius)

\* TileMap.nearby_enemies: the enemies of unit standing in its weapon range
nearby_enemies(unit) ==
    LET cs == SelectSeq(area(coord[unit], weapon_range[unit][2], weapon_range[unit][1]),
                        LAMBDA c : /\ get_unit(c) # NoUnit
                                   /\ are_enemies(get_unit(c), unit))
    IN [i \in 1 .. Len(cs) |-> get_unit(cs[i])]

(* ----------------------------- the state ------------------------------- *)
NoAnim == [cont |-> "none", unit |-> NoUnit, target |-> NoCoord, path |-> <<>>, px |-> <<>>]
\* op returned (ok) or raised (~ok); menu: it opened the action menu;
\* moved: it moved a unit from a cell to another; branch: the branch a select took
Done(op, ok, menu, moved, branch) ==
    [op |-> op, ok |-> ok, menu |-> menu, moved |-> moved, branch |-> branch]
NoSnap == [terrains |-> <<>>, coord |-> <<>>]
\* no query has returned yet
NoRet == [op |-> "none", arg |-> <<>>, ok |-> TRUE, value |-> <<>>]


\* the rooms of src/room.py
RoomIds == {"r1", "r2", "r3"}
\* Python's None, for a room reference
NoRoom == "None"
runvars == <<rooms, quit, stack, run_pc, done, started, ended, halted, resumed>>
treevars == <<children, parent, made>>

\* room.py as imported: no room queued, run() not called
RunIdle ==
    /\ rooms = <<>>
    /\ quit = FALSE
    /\ stack = <<>>
    /\ run_pc = "idle"
    /\ done = [r \in RoomIds |-> FALSE]
    /\ started = {}
    /\ ended = {}
    /\ halted = {}
    /\ resumed = {}

\* no room constructed yet
NoRoomMade ==
    /\ children = [r \in RoomIds |-> <<>>]
    /\ parent = [r \in RoomIds |-> NoRoom]
    /\ made = {}

Init ==
    /\ RunIdle
    /\ NoRoomMade
    /\ allowed = OpenTerrain
    /\ coord = StartCoord
    /\ terrains = [c \in Coords |->
                     IF \E u \in Units : StartCoord[u] = c
                     THEN CHOOSE u \in Units : StartCoord[u] = c
                     ELSE NoUnit]
    /\ sprites = Units
    /\ \/ team = [u1 |-> "blue", u2 |-> "blue"] /\ played = [u1 |-> FALSE, u2 |-> TRUE]
       \/ team = [u1 |-> "blue", u2 |-> "red"] /\ played = [u1 |-> FALSE, u2 |-> FALSE]
    /\ active_team = "blue"
    /\ weapon_range = WeaponRange
    /\ prev_sel = NoCoord
    /\ curr_sel = NoCoord
    /\ move_area = <<>>
    /\ attack_area = <<>>
    /\ return_path = NoPath
    /\ pc = "idle"
    /\ anim = NoAnim
    /\ last = Done("init", TRUE, FALSE, FALSE, "none")
    /\ pre = NoSnap
    /\ calls = 0
    /\ moves = 0
    /\ ret = NoRet

grid == <<terrains, coord>>
selection == <<prev_sel, curr_sel, move_area, attack_area>>
fixed == <<allowed, team, played, active_team, weapon_range, runvars, treevars>>
\* what only kill_unit, a call of move from outside or a query changes
others == <<sprites, fixed, moves, ret>>

\* a caller (the event handlers, the action menu, the AI) calls an operation
\* of the map while no animation runs
Call ==
    /\ pc = "idle"
    /\ calls < MaxCalls
    /\ calls' = calls + 1

(* -------------------------- move and its animation ---------------------- *)
\* how far TileMap.move gets before its animation: "same" (the two
\* coordinates are the same, nothing is done), "occupied" (ValueError),
\* "error" (move_animation raises: no path to follow, or no sprite to move)
\* or "go"
MoveOutcome(unit, new_coord) ==
    IF coord[unit] = new_coord THEN "same"
    ELSE IF get_unit(new_coord) # NoUnit THEN "occupied"
    ELSE IF shortest_path(coord[unit], new_coord, Movement[unit]) = <<>>
            \/ unit \notin sprites THEN "error"
    ELSE "go"

\* the animation move() starts: move_animation(unit, new_coord)
MoveAnim(cont, unit, new_coord) ==
    LET path == shortest_path(coord[unit], new_coord, Movement[unit])
    IN [cont |-> cont, unit |-> unit, target |-> new_coord, path |-> path, px |-> path]

\* a move that leaves the unit on its origin cell as well
MoveCommitKeepsOrigin(unit, new_coord, path) ==
    /\ return_path' = Append(Reverse(Front(path)), coord[unit])
    /\ terrains' = [terrains EXCEPT ![new_coord] = unit]
    /\ coord' = [coord EXCEPT ![unit] = new_coord]

\* the rest of TileMap.move, once move_animation has returned path
MoveCommit(unit, new_coord, path) ==
    /\ return_path' = Append(Reverse(Front(path)), coord[unit])
    /\ terrains' = [terrains EXCEPT ![coord[unit]] = NoUnit, ![new_coord] = unit]
    /\ coord' = [coord EXCEPT ![unit] = new_coord]

\* TileMap.move(unit, new_coord) called on its own, up to its animation
Move(unit, new_coord) ==
    /\ Call
    /\ moves < MaxMoves
    /\ moves' = moves + 1
    /\ LET out == MoveOutcome(unit, new_coord)
       IN IF out = "go"
          THEN /\ pc' = "anim"
               /\ anim' = MoveAnim("move", unit, new_coord)
               /\ UNCHANGED last
          ELSE /\ last' = Done("move", out = "same", FALSE, FALSE, "none")
               /\ UNCHANGED <<pc, anim>>
    /\ pre' = NoSnap
    /\ UNCHANGED <<grid, selection, return_path, sprites, fixed, ret>>

(* ------------------------------- select --------------------------------- *)
\* a move condition that does not ask whose unit it is
can_selection_move_any_team(was, now) ==
    /\ UnitAt(was) # NoUnit
    /\ ~played[UnitAt(was)]
    /\ InSeq(now, move_area)

\* TileMap.can_selection_move, for the selection (was, now) that select has set
can_selection_move(was, now) ==
    /\ UnitAt(was) # NoUnit
    /\ ~played[UnitAt(was)]
    /\ is_mine(UnitAt(was))
    /\ InSeq(now, move_area)

\* a reset that leaves the attack area shown
reset_selection_keeps_attack_area ==
    /\ curr_sel' = NoCoord
    /\ prev_sel' = NoCoord
    /\ move_area' = <<>>
    /\ UNCHANGED attack_area

\* TileMap.reset_selection
reset_selection ==
    /\ curr_sel' = NoCoord
    /\ prev_sel' = NoCoord
    /\ move_area' = <<>>
    /\ attack_area' = <<>>

\* a select that opens the menu for a unit that has played
SelectBranchMenuPlayed(was, now) ==
    IF was = NoCoord THEN "first"
    ELSE IF UnitAt(was) # NoUnit /\ UnitAt(now) # NoUnit
         THEN IF was = now /\ is_mine(UnitAt(was))
              THEN "menu" ELSE "second"
    ELSE IF can_selection_move(was, now) THEN "move"
    ELSE "irrelevant"

\* the branch select takes for the selection (was, now)
SelectBranch(was, now) ==
    IF was = NoCoord THEN "first"
    ELSE IF UnitAt(was) # NoUnit /\ UnitAt(now) # NoUnit
         THEN IF was = now /\ ~played[UnitAt(was)] /\ is_mine(UnitAt(was))
              THEN "menu" ELSE "second"
    ELSE IF can_selection_move(was, now) THEN "move"
    ELSE "irrelevant"

\* a first pick that shows the areas of a unit that has played
FirstPickShowsPlayed(now) == get_unit(now) # NoUnit

\* lines 434-441: a first pick shows the areas of the unit picked
FirstPickShows(now) == ~(get_unit(now) = NoUnit \/ played[get_unit(now)])

\* an irrelevant pick that shows the areas of a unit that has played
IrrelevantShowsPlayed(now) == UnitAt(now) # NoUnit

\* lines 463-466: after an irrelevant pick, the areas of the unit picked
IrrelevantShows(now) == UnitAt(now) # NoUnit /\ ~played[UnitAt(now)]

\* update_move_area then move_attack_area, for the unit on the cell now
ShownAreas(now) ==
    LET reach == PathArea(now, Movement[UnitAt(now)])
    IN <<reach, move_attack_area(UnitAt(now), reach)>>

\* the two areas after select(now), the previous selection being was
SelectAreas(was, now) ==
    LET taken == SelectBranch(was, now)
    IN IF taken = "first"
       THEN IF FirstPickShows(now) THEN ShownAreas(now) ELSE <<<<>>, <<>>>>
       ELSE IF taken = "second" THEN ShownAreas(now)
       ELSE IF taken = "irrelevant"
       THEN IF IrrelevantShows(now) THEN ShownAreas(now) ELSE <<<<>>, <<>>>>
       ELSE <<move_area, attack_area>>

\* TileMap.select(coord), up to the animation of the move it may perform
Select(c) ==
    /\ Call
    /\ LET taken == SelectBranch(curr_sel, c)
           out == IF taken = "move" THEN MoveOutcome(UnitAt(curr_sel), c) ELSE "none"
           areas == SelectAreas(curr_sel, c)
       IN /\ prev_sel' = IF taken = "irrelevant" THEN NoCoord ELSE curr_sel
          /\ curr_sel' = c
          /\ move_area' = areas[1]
          /\ attack_area' = areas[2]
          /\ IF out = "go"
             THEN /\ pc' = "anim"
                  /\ anim' = MoveAnim("select", UnitAt(curr_sel), c)
                  /\ pre' = [terrains |-> terrains, coord |-> coord]
                  /\ UNCHANGED last
             ELSE /\ last' = Done("select", out \in {"none", "same"},
                                  taken = "menu" \/ out = "same", FALSE, taken)
                  /\ pre' = NoSnap
                  /\ UNCHANGED <<pc, anim>>
    /\ UNCHANGED <<grid, return_path, others>>

(* ------------------------------ move_undo ------------------------------- *)
\* the assignments of move_undo after its animation all succeed
UndoOk(unit) == prev_sel # NoCoord /\ curr_sel # NoCoord /\ unit # NoUnit

\* an undo that leaves the unit on the cell it had moved to
UndoCommitKeepsCurrent(unit) ==
    IF prev_sel = NoCoord
    THEN UNCHANGED <<grid, selection>>
    ELSE IF curr_sel = NoCoord
    THEN /\ terrains' = [terrains EXCEPT ![prev_sel] = unit]
         /\ UNCHANGED <<coord, selection>>
    ELSE IF unit = NoUnit
    THEN /\ terrains' = [terrains EXCEPT ![prev_sel] = unit]
         /\ UNCHANGED <<coord, selection>>
    ELSE /\ terrains' = [terrains EXCEPT ![prev_sel] = unit]
         /\ coord' = [coord EXCEPT ![unit] = prev_sel]
         /\ reset_selection

\* lines 237-240 of move_undo, stopping at the first one that raises
UndoCommit(unit) ==
    IF prev_sel = NoCoord
    THEN UNCHANGED <<grid, selection>>
    ELSE IF curr_sel = NoCoord
    THEN /\ terrains' = [terrains EXCEPT ![prev_sel] = unit]
         /\ UNCHANGED <<coord, selection>>
    ELSE IF unit = NoUnit
    THEN /\ terrains' = [terrains EXCEPT ![prev_sel] = unit, ![curr_sel] = NoUnit]
         /\ UNCHANGED <<coord, selection>>
    ELSE /\ terrains' = [terrains EXCEPT ![prev_sel] = unit, ![curr_sel] = NoUnit]
         /\ coord' = [coord EXCEPT ![unit] = prev_sel]
         /\ reset_selection

\* TileMap.move_undo, up to its animation
MoveUndo ==
    /\ Call
    /\ IF curr_sel # prev_sel
       THEN IF return_path # NoPath
            THEN IF curr_unit # NoUnit /\ curr_unit \in sprites
                 THEN /\ pc' = "anim"
                      /\ anim' = [cont |-> "undo", unit |-> curr_unit, target |-> prev_sel,
                                  path |-> return_path, px |-> return_path]
                      /\ UNCHANGED <<grid, selection, return_path, last>>
                 ELSE /\ last' = Done("move_undo", FALSE, FALSE, FALSE, "none")
                      /\ UNCHANGED <<grid, selection, return_path, pc, anim>>
            ELSE /\ UndoCommit(curr_unit)
                 /\ last' = Done("move_undo", UndoOk(curr_unit), FALSE, UndoOk(curr_unit), "none")
                 /\ UNCHANGED <<return_path, pc, anim>>
       ELSE /\ reset_selection
            /\ last' = Done("move_undo", TRUE, FALSE, FALSE, "none")
            /\ UNCHANGED <<grid, return_path, pc, anim>>
    /\ pre' = IF last.op = "select" /\ last.moved THEN pre ELSE NoSnap
    /\ UNCHANGED others

(* ----------------------------- the animation ---------------------------- *)
\* an animation that puts the unit on each waypoint it reaches
AnimTickMovesUnit ==
    /\ pc = "anim"
    /\ Len(anim.px) > 1
    /\ anim' = [anim EXCEPT !.px = Tail(anim.px)]
    /\ terrains' = [terrains EXCEPT ![coord[anim.unit]] = NoUnit, ![anim.px[2]] = anim.unit]
    /\ coord' = [coord EXCEPT ![anim.unit] = anim.px[2]]
    /\ UNCHANGED <<selection, return_path, others, pc, last, pre, calls>>

\* one pass of move_animation's event_loop that reaches a waypoint which is
\* not the last one
AnimTick ==
    /\ pc = "anim"
    /\ Len(anim.px) > 1
    /\ anim' = [anim EXCEPT !.px = Tail(anim.px)]
    /\ UNCHANGED <<grid, selection, return_path, others, pc, last, pre, calls>>

\* the sprite reaches the last waypoint: move_animation returns and its caller
\* (move, called by select or on its own, or move_undo) runs to its end
AnimDone ==
    /\ pc = "anim"
    /\ Len(anim.px) = 1
    /\ pc' = "idle"
    /\ anim' = NoAnim
    /\ IF anim.cont = "undo"
       THEN /\ return_path' = NoPath
            /\ UndoCommit(anim.unit)
            /\ last' = Done("move_undo", UndoOk(anim.unit), FALSE, UndoOk(anim.unit), "none")
            /\ UNCHANGED pre
       ELSE /\ MoveCommit(anim.unit, anim.target, anim.path)
            /\ last' = Done(anim.cont, TRUE, anim.cont = "select", TRUE,
                             IF anim.cont = "select" THEN "move" ELSE "none")
            /\ UNCHANGED <<selection, pre>>
    /\ UNCHANGED <<others, calls>>

(* ------------------------- the other operations ------------------------- *)
\* TileMap.kill_unit; raises tells whether removing from the roster a unit
\* that is no longer in it raises
KillUnit(unit, raises) ==
    /\ Call
    /\ IF unit \in sprites
       THEN /\ sprites' = sprites \ {unit}
            /\ terrains' = [terrains EXCEPT ![coord[unit]] = NoUnit]
            /\ last' = Done("kill_unit", TRUE, FALSE, FALSE, "none")
       ELSE /\ UNCHANGED sprites
            /\ terrains' = IF raises THEN terrains
                           ELSE [terrains EXCEPT ![coord[unit]] = NoUnit]
            /\ last' = Done("kill_unit", FALSE, FALSE, FALSE, "none")
    /\ pre' = NoSnap
    /\ UNCHANGED <<coord, selection, return_path, fixed, moves, ret, pc, anim>>

\* TileMap.prepare_attack(unit), unit possibly None
PrepareAttack(unit) ==
    /\ Call
    /\ LET now == IF unit # NoUnit THEN coord[unit] ELSE curr_sel
           attacker == IF unit # NoUnit THEN unit ELSE UnitAt(now)
       IN /\ curr_sel' = now
          /\ move_area' = <<>>
          /\ IF attacker = NoUnit
             THEN /\ UNCHANGED attack_area
                  /\ last' = Done("prepare_attack", FALSE, FALSE, FALSE, "none")
             ELSE /\ attack_area' = LET near == nearby_enemies(attacker)
                                    IN [i \in 1 .. Len(near) |-> coord[near[i]]]
                  /\ last' = Done("prepare_attack", TRUE, FALSE, FALSE, "none")
    /\ pre' = NoSnap
    /\ UNCHANGED <<grid, prev_sel, return_path, others, pc, anim>>

\* TileMap.reset_selection, called on its own (right mouse button)
ResetSelection ==
    /\ Call
    /\ reset_selection
    /\ last' = Done("reset_selection", TRUE, FALSE, FALSE, "none")
    /\ pre' = NoSnap
    /\ UNCHANGED <<grid, return_path, others, pc, anim>>

Next ==
    \/ \E c \in Coords : Select(c)
    \/ \E u \in Units, c \in Coords : Move(u, c)
    \/ MoveUndo
    \/ AnimTick
    \/ AnimDone
    \/ \E u \in Units, raises \in BOOLEAN : KillUnit(u, raises)
    \/ \E u \in Units \cup {NoUnit} : PrepareAttack(u)
    \/ ResetSelection

Spec == Init /\ [][Next]_vars

\* the selections made with the mouse or the keyboard alone
NextSelect ==
    \/ \E c \in Coords : Select(c)
    \/ AnimTick
    \/ AnimDone

SpecSelect == Init /\ [][NextSelect]_vars

(* ----------------- the area computations on their own -------------------- *)
\* largest weapon range of a unit
MaxRange == 2
\* length of the longest move area that is tried
MaxArea == 2

\* the weapon ranges (min_range, max_range) a weapon can give
Ranges == {r \in (0 .. MaxRange) \X (0 .. MaxRange) : r[1] <= r[2]}

\* the move areas tried: the lists of distinct cells, the origin first
AreaInputs ==
    {a \in UNION {[1 .. n -> Coords] : n \in 0 .. MaxArea} :
        \A i, j \in 1 .. Len(a) : i # j => a[i] # a[j]}

\* the occupants of the cells when the units stand on the coordinates at
TerrainsOf(at) ==
    [c \in Coords |-> IF \E u \in Units : at[u] = c
                      THEN CHOOSE u \in Units : at[u] = c
                      ELSE NoUnit]

\* no operation has been called yet
NothingCalled ==
    /\ RunIdle
    /\ NoRoomMade
    /\ return_path = NoPath
    /\ pc = "idle"
    /\ anim = NoAnim
    /\ last = Done("init", TRUE, FALSE, FALSE, "none")
    /\ pre = NoSnap
    /\ calls = 0
    /\ moves = 0
    /\ ret = NoRet

\* u1 is selected on any cell, with any weapon range and any move area that
\* starts on its cell
InitAreas ==
    /\ NothingCalled
    /\ allowed = OpenTerrain
    /\ sprites = Units
    /\ team = [u1 |-> "blue", u2 |-> "red"]
    /\ played = [u1 |-> FALSE, u2 |-> FALSE]
    /\ active_team = "blue"
    /\ \E r \in Ranges : weapon_range = [WeaponRange EXCEPT !.u1 = r]
    /\ move_area \in AreaInputs
    /\ curr_sel \in (IF move_area = <<>> THEN Coords ELSE {move_area[1]})
    /\ coord = [u1 |-> curr_sel,
                u2 |-> IF curr_sel = StartCoord.u2 THEN StartCoord.u1 ELSE StartCoord.u2]
    /\ terrains = TerrainsOf(coord)
    /\ prev_sel = NoCoord
    /\ attack_area = <<>>

\* one computation is called on the state drawn
Query ==
    /\ pc = "idle"
    /\ calls = 0
    /\ calls' = 1

\* TileMap.move_attack_area()
MoveAttackArea ==
    /\ Query
    /\ curr_unit # NoUnit
    /\ attack_area' = move_attack_area(curr_unit, move_area)
    /\ last' = Done("move_attack_area", TRUE, FALSE, FALSE, "none")
    /\ UNCHANGED <<grid, prev_sel, curr_sel, move_area, return_path, others, pc, anim, pre>>

\* TileMap.still_attack_area()
StillAttackArea ==
    /\ Query
    /\ curr_unit # NoUnit
    /\ move_area' = <<>>
    /\ attack_area' = still_attack_area(curr_unit, curr_sel)
    /\ last' = Done("still_attack_area", TRUE, FALSE, FALSE, "none")
    /\ UNCHANGED <<grid, prev_sel, curr_sel, return_path, others, pc, anim, pre>>

\* TileMap.area(center, radius, hole)
Area(center, radius, hole) ==
    /\ Query
    /\ ret' = [op |-> "area", arg |-> <<center, radius, hole>>, ok |-> TRUE,
               value |-> area(center, radius, hole)]
    /\ UNCHANGED <<grid, selection, return_path, sprites, fixed, moves, pc, anim, last, pre>>

\* area as nearby_enemies calls it: around the unit, with its weapon range
NextAreas ==
    \/ MoveAttackArea
    \/ StillAttackArea
    \/ Area(curr_sel, weapon_range[curr_unit][2], weapon_range[curr_unit][1])

SpecAreas == InitAreas /\ [][NextAreas]_vars

(* ------------------------ is_obstacle on its own ------------------------- *)
\* the traversal tags of the terrains and of the units
Tags == {"walk", "fly", "swim"}
\* length of the longest list of tags of a cell
MaxTags == 2

\* the values of Terrain.allowed: a sentinel alone, or a list of distinct tags
TagLists ==
    {<<"any">>, <<"none">>}
    \cup {t \in UNION {[1 .. n -> Tags] : n \in 1 .. MaxTags} :
            \A i, j \in 1 .. Len(t) : i # j => t[i] # t[j]}

\* the map as loaded, every cell with the same list of tags; u2 is a friend
\* or an enemy of u1
InitObstacle ==
    /\ NothingCalled
    /\ \E t \in TagLists : allowed = [c \in Coords |-> t]
    /\ coord = StartCoord
    /\ terrains = TerrainsOf(StartCoord)
    /\ sprites = Units
    /\ team \in {[u1 |-> "blue", u2 |-> "blue"], [u1 |-> "blue", u2 |-> "red"]}
    /\ played = [u1 |-> FALSE, u2 |-> FALSE]
    /\ active_team = "blue"
    /\ weapon_range = WeaponRange
    /\ prev_sel = NoCoord
    /\ curr_sel = NoCoord
    /\ move_area = <<>>
    /\ attack_area = <<>>

\* TileMap.is_obstacle(coord, unit), unit possibly None
IsObstacle(c, unit) ==
    /\ Query
    /\ ret' = [op |-> "is_obstacle", arg |-> <<c, unit>>, ok |-> TRUE,
               value |-> is_obstacle(c, unit)]
    /\ UNCHANGED <<grid, selection, return_path, sprites, fixed, moves, pc, anim, last, pre>>

NextObstacle == \E c \in Coords, unit \in Units \cup {NoUnit} : IsObstacle(c, unit)

SpecObstacle == InitObstacle /\ [][NextObstacle]_vars

(* ----------------------- the lookup of a cell ---------------------------- *)
\* number of cells of the map that have no tile in any layer
MaxHoles == 1

\* the coordinates looked up: the grid and the coordinates around it
Probes == (-1 .. W) \X (-1 .. H)

\* the cells __init__ gives a Terrain: those with a tile in some layer
TileSets ==
    {Coords \ holes : holes \in {h \in SUBSET (Coords \ {StartCoord[u] : u \in Units}) :
                                   Cardinality(h) <= MaxHoles}}

\* the map as loaded from a file whose layers leave at most MaxHoles cells empty
InitLookup ==
    /\ NothingCalled
    /\ allowed = OpenTerrain
    /\ coord = StartCoord
    /\ \E tiles \in TileSets : terrains = [c \in tiles |-> TerrainsOf(StartCoord)[c]]
    /\ sprites = Units
    /\ team = [u1 |-> "blue", u2 |-> "red"]
    /\ played = [u1 |-> FALSE, u2 |-> FALSE]
    /\ active_team = "blue"
    /\ weapon_range = WeaponRange
    /\ prev_sel = NoCoord
    /\ curr_sel = NoCoord
    /\ move_area = <<>>
    /\ attack_area = <<>>

\* the lookup self.terrains[c] of a Python dict: a KeyError if c is no key
Lookup(op, c) ==
    /\ Query
    /\ ret' = IF c \in DOMAIN terrains
              THEN [op |-> op, arg |-> <<c>>, ok |-> TRUE, value |-> get_unit(c)]
              ELSE [op |-> op, arg |-> <<c>>, ok |-> FALSE, value |-> "KeyError"]
    /\ UNCHANGED <<grid, selection, return_path, sprites, fixed, moves, pc, anim, last, pre>>

\* TileMap.__getitem__(coord)
GetItem(c) == Lookup("getitem", c)
\* TileMap.get_unit(coord)
GetUnit(c) == Lookup("get_unit", c)

NextLookup == \E c \in Probes : GetItem(c) \/ GetUnit(c)

SpecLookup == InitLookup /\ [][NextLookup]_vars

(* --------------------- the rooms: run, run_room, stop -------------------- *)
mapvars == <<terrains, allowed, coord, sprites, team, played, active_team, weapon_range,
             prev_sel, curr_sel, move_area, attack_area, return_path,
             pc, anim, last, pre, calls, moves, ret>>

\* the map as loaded, with no selection, on which nothing has been called
MapLoaded ==
    /\ allowed = OpenTerrain
    /\ coord = StartCoord
    /\ terrains = TerrainsOf(StartCoord)
    /\ sprites = Units
    /\ team = [u1 |-> "blue", u2 |-> "red"]
    /\ played = [u1 |-> FALSE, u2 |-> FALSE]
    /\ active_team = "blue"
    /\ weapon_range = WeaponRange
    /\ prev_sel = NoCoord
    /\ curr_sel = NoCoord
    /\ move_area = <<>>
    /\ attack_area = <<>>
    /\ return_path = NoPath
    /\ pc = "idle"
    /\ anim = NoAnim
    /\ last = Done("init", TRUE, FALSE, FALSE, "none")
    /\ pre = NoSnap
    /\ calls = 0
    /\ moves = 0
    /\ ret = NoRet

\* number of rooms queued before run() is called
MaxQueue == 2

\* the queues tried: queue_room called for up to MaxQueue different rooms
QueueInputs ==
    {q \in UNION {[1 .. n -> RoomIds] : n \in 1 .. MaxQueue} :
        \A i, j \in 1 .. Len(q) : i # j => q[i] # q[j]}

InitRun ==
    /\ MapLoaded
    /\ NoRoomMade
    /\ rooms \in QueueInputs
    /\ quit = FALSE
    /\ stack = <<>>
    /\ run_pc = "idle"
    /\ done = [r \in RoomIds |-> FALSE]
    /\ started = {}
    /\ ended = {}
    /\ halted = {}
    /\ resumed = {}

\* the innermost call of run_room, and the rooms of all the calls in progress
Top == stack[Len(stack)]
Running == {stack[i].room : i \in 1 .. Len(stack)}
\* the callbacks and the loop methods of the rooms run inside an iteration
InIteration == stack # <<>> /\ Top.at = "iter"

\* run_room(room) up to its event loop (lines 177-185)
RunRoomEnter(room) ==
    /\ quit' = FALSE
    /\ stack' = Append(stack, [room |-> room, at |-> "wait"])
    /\ started' = started \cup {room}

\* run(), up to its while loop
Run ==
    /\ run_pc = "idle"
    /\ quit' = FALSE
    /\ run_pc' = "while"
    /\ UNCHANGED <<rooms, stack, done, started, ended, halted, resumed, mapvars, treevars>>

\* run(): one more turn of the while loop; run_next_room() up to run_room's loop
RunNextRoom ==
    /\ run_pc = "while"
    /\ rooms # <<>>
    /\ rooms' = Tail(rooms)
    /\ RunRoomEnter(Head(rooms))
    /\ run_pc' = "room"
    /\ UNCHANGED <<done, ended, halted, resumed, mapvars, treevars>>

\* run(): the queue is empty, run returns
RunReturns ==
    /\ run_pc = "while"
    /\ rooms = <<>>
    /\ run_pc' = "done"
    /\ UNCHANGED <<rooms, quit, stack, done, started, ended, halted, resumed, mapvars, treevars>>

\* events.event_loop calls loop(_events) once more (line 196)
Iterate ==
    /\ stack # <<>>
    /\ Top.at = "wait"
    /\ stack' = [stack EXCEPT ![Len(stack)].at = "iter"]
    /\ resumed' = resumed \cup ({Top.room} \cap halted)
    /\ UNCHANGED <<rooms, quit, run_pc, done, started, ended, halted, mapvars, treevars>>

\* stop(), called by a callback of a running room
Stop ==
    /\ InIteration
    /\ rooms' = <<>>
    /\ quit' = TRUE
    /\ halted' = halted \cup Running
    /\ UNCHANGED <<stack, run_pc, done, started, ended, resumed, mapvars, treevars>>

\* a callback sets self.done of the room that runs
SetDone ==
    /\ InIteration
    /\ ~done[Top.room]
    /\ done' = [done EXCEPT ![Top.room] = TRUE]
    /\ UNCHANGED <<rooms, quit, stack, run_pc, started, ended, halted, resumed, mapvars, treevars>>

\* a callback calls run_room(room) for another room (Room.run_room, or
\* room.run_room as TileMap.attack does)
NestedRunRoom(room) ==
    /\ InIteration
    /\ room \notin started
    /\ RunRoomEnter(room)
    /\ UNCHANGED <<rooms, run_pc, done, ended, halted, resumed, mapvars, treevars>>

\* the end of loop(_events), lines 189-195, and when it returns done the end
\* of run_room, lines 197-199, and of run_next_room, line 174
IterationEnds ==
    /\ InIteration
    /\ IF done[Top.room] \/ quit
       THEN /\ ended' = IF quit THEN ended ELSE ended \cup {Top.room}
            /\ stack' = Front(stack)
            /\ IF Len(stack) = 1
               THEN quit' = FALSE /\ run_pc' = "while"
               ELSE UNCHANGED <<quit, run_pc>>
       ELSE /\ stack' = [stack EXCEPT ![Len(stack)].at = "wait"]
            /\ UNCHANGED <<ended, quit, run_pc>>
    /\ UNCHANGED <<rooms, done, started, halted, resumed, mapvars, treevars>>

NextRun ==
    \/ Run
    \/ RunNextRoom
    \/ RunReturns
    \/ Iterate
    \/ Stop
    \/ SetDone
    \/ \E room \in RoomIds : NestedRunRoom(room)
    \/ IterationEnds

SpecRun == InitRun /\ [][NextRun]_vars

(* ------------------------- the rooms: the room tree ---------------------- *)
\* the longest list of children a room is given or grows to
MaxChildren == 2

InitTree ==
    /\ MapLoaded
    /\ RunIdle
    /\ NoRoomMade

\* the lists of rooms passed as children: rooms constructed before, each once
ChildLists(n) ==
    {k \in UNION {[1 .. m -> made] : m \in 1 .. n} :
        \A i, j \in 1 .. Len(k) : i # j => k[i] # k[j]}

\* the rooms reached from the rooms of S through the children lists
RECURSIVE Below(_)
Below(S) ==
    LET T == S \cup {k \in RoomIds : \E r \in S : InSeq(k, children[r])}
    IN  IF T = S THEN S ELSE Below(T)

\* the parent fields after self.prepare_child(child), and after it is called
\* for each room of kids in turn
RECURSIVE prepare_child(_, _, _), prepare_each(_, _, _)
prepare_child(par, self, child) ==
    prepare_each([par EXCEPT ![child] = self], child, children[child])
prepare_each(par, self, kids) ==
    IF kids = <<>>
    THEN par
    ELSE prepare_each(prepare_child(par, self, Head(kids)), self, Tail(kids))

\* list.remove(e): the list without the first e
RemoveFirst(s, e) ==
    LET i == CHOOSE i \in 1 .. Len(s) : s[i] = e /\ \A j \in 1 .. i - 1 : s[j] # e
    IN  SubSeq(s, 1, i - 1) \o SubSeq(s, i + 1, Len(s))

\* Room(): a room with no children argument
New(r) ==
    /\ r \notin made
    /\ made' = made \cup {r}
    /\ children' = [children EXCEPT ![r] = <<>>]
    /\ parent' = [parent EXCEPT ![r] = NoRoom]
    /\ UNCHANGED <<mapvars, runvars>>

\* Room(children=kids)
NewWithChildren(r, kids) ==
    /\ r \notin made
    /\ made' = made \cup {r}
    /\ children' = [children EXCEPT ![r] = kids]
    /\ parent' = [parent EXCEPT ![r] = NoRoom]
    /\ UNCHANGED <<mapvars, runvars>>

\* r.add_children(*kids), for rooms that do not hold r below them
add_children(r, kids) ==
    /\ r \in made
    /\ r \notin Below({kids[i] : i \in 1 .. Len(kids)})
    /\ Len(children[r]) + Len(kids) <= MaxChildren
    /\ parent' = prepare_each(parent, r, kids)
    /\ children' = [children EXCEPT ![r] = @ \o kids]
    /\ UNCHANGED <<made, mapvars, runvars>>

AddChildren == \E r \in RoomIds : \E kids \in ChildLists(MaxChildren) : add_children(r, kids)

\* r.add_child(c), also for a c that some room holds already
AddChild == \E r \in RoomIds, c \in made : add_children(r, <<c>>)

\* r.remove_child(c) for a c of r.children
RemoveChild ==
    \E r \in made, c \in made :
        /\ InSeq(c, children[r])
        /\ children' = [children EXCEPT ![r] = RemoveFirst(@, c)]
        /\ parent' = [parent EXCEPT ![c] = NoRoom]
        /\ UNCHANGED <<made, mapvars, runvars>>

NextTree ==
    \/ \E r \in RoomIds : New(r)
    \/ \E r \in RoomIds : \E kids \in ChildLists(MaxChildren) : NewWithChildren(r, kids)
    \/ AddChildren
    \/ AddChild
    \/ RemoveChild

SpecTree == InitTree /\ [][NextTree]_vars

(* ================================ claims ================================ *)
areas == <<move_area, attack_area>>
NoAreas == <<<<>>, <<>>>>

\* a call of select is made in this step
SelectCalled ==
    /\ calls' = calls + 1
    /\ IF pc' = "anim" THEN anim'.cont = "select" ELSE last'.op = "select"

\* move_animation returns to the move that select or an outside caller made
MoveReturns == pc = "anim" /\ anim.cont # "undo" /\ pc' = "idle"

\* C1: every unit in play is the occupant of exactly one cell, the one at its
\* own coord.  The code breaks it: move_undo on a selection of two different
\* units puts the second on the cell of the first.
OccupancyAgrees ==
    \A u \in sprites :
        /\ terrains[coord[u]] = u
        /\ \A c \in Coords : terrains[c] = u => c = coord[u]

\* C2: a move that succeeds puts the unit on the destination, empties the
\* origin, sets the unit's coord and changes the occupant of no other cell.
MoveAtomic ==
    [][MoveReturns =>
          /\ terrains'[anim.target] = anim.unit
          /\ terrains'[coord[anim.unit]] = NoUnit
          /\ coord'[anim.unit] = anim.target
          /\ \A c \in Coords \ {anim.target, coord[anim.unit]} : terrains'[c] = terrains[c]]_vars

\* C2 witness: a move called from outside has just moved a unit
MoveSucceeded == pc = "idle" /\ last.op = "move" /\ last.moved

\* C3: move of a unit in play onto a cell that holds another unit raises and
\* changes neither the grid nor the stored return path.  The code breaks it
\* once C1 is broken: for a unit whose coord is a cell that another unit
\* occupies, move to that cell returns without an error.
MoveOntoOccupiedFails ==
    [][\A u \in Units, d \in Coords :
          (Move(u, d) /\ u \in sprites /\ get_unit(d) \notin {NoUnit, u})
          => /\ pc' = "idle"
             /\ last'.op = "move" /\ ~last'.ok
             /\ UNCHANGED <<grid, return_path>>]_vars

\* C4: move_undo right after a select that moved a unit puts every occupant
\* and every coord back, forgets the return path and resets the selection.
UndoRestores ==
    (pc = "idle" /\ last.op = "move_undo" /\ pre # NoSnap)
    => /\ last.ok
       /\ terrains = pre.terrains
       /\ coord = pre.coord
       /\ return_path = NoPath
       /\ prev_sel = NoCoord /\ curr_sel = NoCoord /\ areas = NoAreas

\* C4 witness: such a move_undo has returned
UndoneAfterSelectMove == pc = "idle" /\ last.op = "move_undo" /\ last.moved /\ pre # NoSnap

\* C5: move_undo with nothing to undo (no previous selection, or two
\* different cells that both hold a unit) changes no occupant, no coord and
\* no selection field.  The code breaks it for the two cells with units.
NothingToUndo ==
    \/ prev_sel = NoCoord
    \/ prev_sel # curr_sel /\ prev_unit # NoUnit /\ curr_unit # NoUnit

UndoWithNothingToUndo ==
    [][(MoveUndo /\ NothingToUndo) => UNCHANGED <<grid, selection>>]_vars

MoveAttempted ==
    /\ prev_unit # NoUnit /\ is_mine(prev_unit) /\ ~played[prev_unit]
    /\ curr_sel \in Coords /\ curr_unit = NoUnit
    /\ InSeq(curr_sel, move_area)
    /\ pc = "anim" \/ ~last.ok

MoveCondition(was, now) ==
    /\ UnitAt(was) # NoUnit /\ ~played[UnitAt(was)] /\ is_mine(UnitAt(was))
    /\ InSeq(now, move_area)
    /\ UnitAt(now) = NoUnit

\* C7: a select changes an occupant or a coord only by the move of the unit
\* of the previous selection, not played and of the active team, to the
\* current selection, an empty cell of move_area.
SelectMovesOnlyWhenAllowed ==
    [][((SelectCalled \/ (pc = "anim" /\ anim.cont = "select")) /\ grid' # grid)
       => /\ MoveCondition(prev_sel, curr_sel)
          /\ anim.unit = prev_unit /\ anim.target = curr_sel]_vars

\* C7 witness: a select has just moved a unit
SelectMoved == pc = "idle" /\ last.op = "select" /\ last.moved

\* C8: select opens the action menu exactly when the same cell is selected
\* twice and holds a unit of the active team that has not played, or when
\* it has just moved a unit.
MenuOpensExactlyWhen ==
    [][/\ (SelectCalled /\ pc' = "idle")
          => (last'.menu <=> /\ curr_sel = curr_sel'
                             /\ UnitAt(curr_sel') # NoUnit
                             /\ ~played[UnitAt(curr_sel')]
                             /\ is_mine(UnitAt(curr_sel')))
       /\ (pc = "anim" /\ anim.cont = "select" /\ pc' = "idle")
          => (last'.menu /\ last'.moved)
       /\ (last' # last /\ last'.menu) => last'.op = "select"]_vars

\* C8 witness: the menu is open after the same cell was selected twice
MenuAfterSamePick ==
    pc = "idle" /\ last.op = "select" /\ last.menu /\ ~last.moved /\ prev_sel = curr_sel

\* the case of C9: a previous selection, not two units, no move
IrrelevantPick(was, now) ==
    /\ was # NoCoord
    /\ ~(UnitAt(was) # NoUnit /\ UnitAt(now) # NoUnit)
    /\ ~MoveCondition(was, now)

\* the areas a first pick of the cell now gives (lines 434-441)
FirstPickAreas(now) == IF FirstPickShows(now) THEN ShownAreas(now) ELSE NoAreas

AnimationBlocks ==
    [][/\ pc = "anim" => calls' = calls
       /\ pc' = "anim" => UNCHANGED grid
       /\ (pc = "anim" /\ pc' = "anim") => UNCHANGED <<selection, return_path>>]_vars

\* C10 witness: the animation of a move is at its last waypoint
MoveAnimating == pc = "anim" /\ anim.cont # "undo" /\ Len(anim.px) = 1

\* the set of the elements of a list
Elems(s) == {s[i] : i \in 1 .. Len(s)}
NoDuplicates(s) == \A i, j \in 1 .. Len(s) : i # j => s[i] # s[j]
\* the ring of the spec: the cells of the grid at a distance from lo to hi
Ring(center, lo, hi) ==
    {c \in Coords : lo <= distance(center, c) /\ distance(center, c) <= hi}

\* C11: after move_attack_area or still_attack_area the attack area holds no
\* coordinate twice and only coordinates of the grid, and after
\* still_attack_area it is the ring around the current selection.  The code
\* breaks it: __set_attack_area never tests the coordinate against the grid.
AttackAreaInGrid ==
    /\ NoDuplicates(attack_area)
    /\ \A i \in 1 .. Len(attack_area) : check_coord(attack_area[i])
    /\ last.op = "still_attack_area"
       => Elems(attack_area) = Ring(curr_sel, weapon_range[curr_unit][1],
                                    weapon_range[curr_unit][2])

\* C12: after move_attack_area no coordinate is in both the attack area and
\* the move area.
AttackAreaDisjoint ==
    last.op = "move_attack_area" => Elems(attack_area) \cap Elems(move_area) = {}

\* C12 witness: the attack area of a weapon of minimal range 0, whose rings
\* hold the cells of the move area themselves
AttackAreaBesideMoveArea ==
    /\ last.op = "move_attack_area"
    /\ weapon_range[curr_unit][1] = 0
    /\ Len(move_area) > 1
    /\ attack_area # <<>>

\* C13: after move_attack_area the attack area is, as a set, the union of the
\* rings around the cells of the move area, without the move area.  The code
\* breaks it by the bug of C11: it adds the coordinates outside the grid.
AttackAreaIsUnionOfRings ==
    last.op = "move_attack_area"
    => Elems(attack_area)
       = UNION {Ring(m, weapon_range[curr_unit][1], weapon_range[curr_unit][2]) :
                  m \in Elems(move_area)} \ Elems(move_area)

\* a cell with its four orthogonal neighbours in the grid
Interior(c) == Len(neighbors(c)) = 4

\* C14: area(center, radius, hole) returns each cell of the grid at a distance
\* from hole to radius once, and nothing else; for the range (1, 1) around an
\* interior cell these are its four orthogonal neighbours.
AreaIsRing ==
    ret.op = "area"
    => LET center == ret.arg[1]
           radius == ret.arg[2]
           hole == ret.arg[3]
       IN /\ NoDuplicates(ret.value)
          /\ Elems(ret.value) = Ring(center, hole, radius)
          /\ (radius = 1 /\ hole = 1 /\ Interior(center))
             => Elems(ret.value) = Elems(neighbors(center)) /\ Len(ret.value) = 4

\* C14 witness: area is called for the range (1, 1) around an interior cell
AreaAtInteriorCenter ==
    /\ ret.op = "area"
    /\ Interior(ret.arg[1]) /\ ret.arg[2] = 1 /\ ret.arg[3] = 1
    /\ Len(ret.value) = 4

\* C15: with no mover, is_obstacle tells that a cell blocks exactly when its
\* allowed traversal is "none".  The code breaks it: with no mover it
\* returns False for every cell.
NoMoverBlockedByNone ==
    (ret.op = "is_obstacle" /\ ret.arg[2] = NoUnit)
    => (ret.value <=> allowed[ret.arg[1]] = <<"none">>)

\* C16: for a mover, a cell that an enemy occupies blocks, and a cell with no
\* occupant blocks exactly when its allowed traversal is "none" or a set of
\* tags none of which the mover has, whatever the order of the tags.
MoverBlocked ==
    (ret.op = "is_obstacle" /\ ret.arg[2] # NoUnit)
    => LET c == ret.arg[1]
           unit == ret.arg[2]
       IN /\ (terrains[c] # NoUnit /\ are_enemies(unit, terrains[c])) => ret.value
          /\ terrains[c] = NoUnit
             => (ret.value <=> \/ allowed[c] = <<"none">>
                               \/ /\ allowed[c] # <<"any">>
                                  /\ Elems(allowed[c]) \cap AllowedTerrains[unit] = {})

\* C16 witness: an empty cell is passable by its second tag
PassableBySecondTag ==
    /\ ret.op = "is_obstacle" /\ ret.arg[2] # NoUnit
    /\ terrains[ret.arg[1]] = NoUnit
    /\ ~ret.value
    /\ Len(allowed[ret.arg[1]]) = 2
    /\ allowed[ret.arg[1]][1] \notin AllowedTerrains[ret.arg[2]]

\* C17: the lookup of a cell succeeds exactly for the coordinates of the
\* grid.  The code breaks it for a cell of the grid that has no tile in any
\* layer of the map: __init__ gives it no Terrain.
LookupSucceedsInGrid ==
    ret.op \in {"getitem", "get_unit"} => (ret.ok <=> check_coord(ret.arg[1]))

\* C18: kill_unit(u) clears the cell at u's coord only when u is its occupant;
\* otherwise it raises and changes no occupant.  The code breaks it: it
\* clears the cell at u's coord whoever stands on it.
KillClearsOwnCellOnly ==
    [][\A u \in Units, raises \in BOOLEAN :
          KillUnit(u, raises)
          => IF terrains[coord[u]] = u
             THEN terrains' = [terrains EXCEPT ![coord[u]] = NoUnit]
             ELSE ~last'.ok /\ UNCHANGED terrains]_vars

\* C19: after a move along path, the stored return path is path reversed:
\* from the destination to the origin, each cell once.  The code breaks it:
\* it drops the destination and appends the origin a second time.
ReturnPathIsReverse ==
    [][MoveReturns => return_path' = Reverse(anim.path)]_vars

\* C20: when select starts a move, move_area is the area reachable from the
\* coord the unit has now, and a unit that a select has just moved is not
\* moved again by the next select.  The code breaks it: the move leaves
\* move_area as it was computed for the origin, and the next select tests
\* its destination against it.
MoveAreaOfCurrentCoord ==
    [][(SelectCalled /\ pc' = "anim")
       => /\ Elems(move_area) = Elems(PathArea(coord[anim'.unit], Movement[anim'.unit]))
          /\ ~(last.op = "select" /\ last.moved)]_vars

\* C21: a return path is stored only from a move to the end of the unit's
\* action: none is left when reset_selection has returned or when select
\* has started a new selection.  The code breaks it: only move_undo ever
\* sets return_path back to None.
NoReturnPathAfterAction ==
    (/\ pc = "idle"
     /\ \/ last.op = "reset_selection"
        \/ last.op = "select" /\ last.branch \in {"first", "second", "irrelevant"})
    => return_path = NoPath

\* a call of reset_selection from outside is made in this step
ResetCalled == calls' = calls + 1 /\ last'.op = "reset_selection"

\* C22: reset_selection sets both selections to None and both areas to the
\* empty list, and changes no occupant and no coord.
ResetClearsSelection ==
    [][ResetCalled
       => /\ prev_sel' = NoCoord /\ curr_sel' = NoCoord
          /\ move_area' = <<>> /\ attack_area' = <<>>
          /\ UNCHANGED grid]_vars

\* C22 witness: reset_selection has returned, called right after the select
\* that moved u1 from its start cell, the areas still shown
SelectionCancelled ==
    /\ pc = "idle" /\ last.op = "reset_selection"
    /\ calls = 3 /\ moves = 0
    /\ coord["u1"] # StartCoord["u1"] /\ terrains[coord["u1"]] = "u1"
    /\ return_path # NoPath
    /\ curr_sel = NoCoord /\ move_area = <<>>

\* C23: once stop() is called, the loop of every running room ends at the
\* iteration it is in, end() is not called on it, and no room is left in the
\* queue.  The code breaks it: a run_room called after stop() in the same
\* iteration sets quit back to False.
StopEndsRun ==
    /\ halted \cap resumed = {}
    /\ halted \cap ended = {}
    /\ halted # {} => rooms = <<>>

\* C24: every room of r.children has r as its parent, whether it came
\* through the constructor's children argument or through add_child or
\* add_children.  The code breaks it: __init__ stores the children argument
\* and never calls prepare_child on it.
ParentAgrees ==
    \A r \in made : \A c \in Elems(children[r]) : parent[c] = r
====
